---- MODULE Spec2Model ----
(***************************************************************************)
(* Model of pcbdl/kicad.py: the indexed view over a parsed s-expression    *)
(* (_Better_sexp), the pin tokenizer (PIN_SPLITTER_RE), the libpart reader *)
(* (_read_kicad_netlist_partcls) and the netlist loader                    *)
(* (read_kicad_netlist), one action per loop iteration of the loader.      *)
(*                                                                         *)
(* Python values:                                                          *)
(*   - a parsed tree node is a record [k, s, c]: a Symbol (k = "sym"), a   *)
(*     string (k = "str") or a list (k = "list") with children c;          *)
(*   - a string that the code looks into character by character (a pin     *)
(*     number, a pin name, a net name) is a sequence of one-character      *)
(*     strings;                                                            *)
(*   - an expression that may raise is a record [ok, val, exc].            *)
(***************************************************************************)
EXTENDS Integers, Sequences, FiniteSets, TLC

VARIABLES
  netlist,       \* netlist_contents: the parsed file
  pc,            \* position of read_kicad_netlist
  exc,           \* the exception that ended the load (NoExc: none)
  seq,           \* the section being iterated: libparts, components or nets
  i,             \* index of the next entry of seq
  part_classes,  \* part_classes
  parts,         \* parts: refdes -> part instance
  printed,       \* what print() wrote
  nets,          \* the nets registered with the circuit graph, oldest first
  nodes,         \* nodes of the net being connected
  j,             \* index of the next node
  ret,           \* the value returned: <<>> until the load returns
  ix_pc, ix_sexp, ix_key, ix_ret,   \* one _Better_sexp.__getitem__ call
  pn_pc, pn_num, pn_name, pn_pin    \* one libpart pin being converted

loader_vars == <<netlist, pc, exc, seq, i, part_classes, parts, printed, nets, nodes, j, ret>>
ix_vars == <<ix_pc, ix_sexp, ix_key, ix_ret>>
pn_vars == <<pn_pc, pn_num, pn_name, pn_pin>>
vars == <<loader_vars, ix_vars, pn_vars>>

----------------------------------------------------------------------------
(* Bounds of the inputs *)

MaxChildren == 3      \* children of the list of one __getitem__ call
MaxStrLen == 3        \* characters of a raw pin number or pin name
MaxLibparts == 2      \* entries of the libparts section
MaxComponents == 2    \* entries of the components section
MaxNetsSize == 4      \* net entries plus node entries of the nets section

SeqsUpTo(S, n) == UNION {[1..m -> S] : m \in 0..n}

Range(f) == {f[x] : x \in DOMAIN f}

----------------------------------------------------------------------------
(* Parsed trees, as sexpdata.loads returns them *)

Sym(s) == [k |-> "sym", s |-> s, c |-> <<>>]
Str(s) == [k |-> "str", s |-> s, c |-> <<>>]
Lst(c) == [k |-> "list", s |-> "", c |-> c]

----------------------------------------------------------------------------
(* Exceptions and results *)

NoExc == [type |-> "", msg |-> "", key |-> "", about |-> <<>>]
\* KeyError(key)
KeyError(key) == [type |-> "KeyError", msg |-> "", key |-> key, about |-> <<>>]
\* KeyError(f"More than one {key!r}, expected only one.")
MoreThanOne(key) ==
  [type |-> "KeyError", msg |-> "More than one, expected only one.", key |-> key, about |-> <<>>]
\* KeyError(f"Couldn't find pin numbered {pin_number} on {part} as the netlist indicates.")
PinNotFound(pin_number, refdes) ==
  [type |-> "KeyError", msg |-> "Couldn't find pin numbered", key |-> pin_number,
   about |-> <<Str(refdes)>>]
\* PartNotFoundException(f"Can't find part {libsource[1:]} in the libparts loaded from the netlist.")
PartNotFoundException(about) ==
  [type |-> "PartNotFoundException", msg |-> "Can't find part", key |-> "", about |-> about]
\* list index out of range
IndexError == [type |-> "IndexError", msg |-> "", key |-> "", about |-> <<>>]

Nil == Sym("")
Return(v) == [ok |-> TRUE, val |-> v, exc |-> NoExc]
Raise(e) == [ok |-> FALSE, val |-> Nil, exc |-> e]

----------------------------------------------------------------------------
(* _Better_sexp *)

\* find_all_iter(key): the children that are lists whose first element is
\* the Symbol key, in order
FindAllIter(self, key) ==
  SelectSeq(self.c, LAMBDA item : item.k = "list" /\ item.c[1].s = key)

\* A slip of __getitem__: the first match is returned without asking for another
GetItemFirstMatch(self, key) ==
  LET iterator == FindAllIter(self, key)
  IN  IF Len(iterator) = 0 THEN Raise(KeyError(key)) ELSE Return(iterator[1])

\* __getitem__(key) for a str key
GetItem(self, key) ==
  LET iterator == FindAllIter(self, key)
  IN  IF Len(iterator) = 0 THEN Raise(KeyError(key))
      ELSE IF Len(iterator) > 1 THEN Raise(MoreThanOne(key))
      ELSE Return(iterator[1])

\* __getitem__(n) for an int key (0-based n), on the list self
GetIndex(self, n) ==
  IF n + 1 <= Len(self.c) THEN Return(self.c[n + 1]) ELSE Raise(IndexError)

\* self[1:]
Slice1(self) == SubSeq(self.c, 2, Len(self.c))

\* self[key][1]
Item1(self, key) ==
  LET r == GetItem(self, key)
  IN  IF r.ok THEN GetIndex(r.val, 1) ELSE r

----------------------------------------------------------------------------
(* PIN_SPLITTER_RE = "[^\(\)/\s,]+" *)

Whitespace == {" ", "\t", "\n", "\r"}
Delimiters == {"(", ")", "/", ","} \cup Whitespace

RECURSIVE FindallFrom(_, _, _)
FindallFrom(s, cur, out) ==
  IF Len(s) = 0 THEN (IF Len(cur) = 0 THEN out ELSE Append(out, cur))
  ELSE IF Head(s) \in Delimiters
       THEN FindallFrom(Tail(s), <<>>, IF Len(cur) = 0 THEN out ELSE Append(out, cur))
       ELSE FindallFrom(Tail(s), Append(cur, Head(s)), out)

\* PIN_SPLITTER_RE.findall(s): the maximal runs of characters that are no delimiter
Findall(s) == FindallFrom(s, <<>>, <<>>)

\* Pin(numbers, names), the host library's pin definition
Pin(numbers, names) == [numbers |-> numbers, names |-> names]

\* The body of the loop over a libpart's pins: a "~" name becomes "P" + num,
\* then name and number are both tokenized
PcbdlPin(num, name) ==
  LET name1 == IF name = <<"~">> THEN <<"P">> \o num ELSE name
  IN  Pin(Findall(num), Findall(name1))

----------------------------------------------------------------------------
(* Python strings as the characters the code looks at *)

\* The characters of the strings that occur as pin numbers, pin names and
\* net names in the netlists below
Chars(s) ==
  CASE s = "1" -> <<"1">>
    [] s = "2" -> <<"2">>
    [] s = "3" -> <<"3">>
    [] s = "1,3" -> <<"1", ",", "3">>
    [] s = "~" -> <<"~">>
    [] s = "A/B" -> <<"A", "/", "B">>
    [] s = "Net-1" -> <<"N", "e", "t", "-", "1">>
    [] s = "Net" -> <<"N", "e", "t">>
    [] s = "GND" -> <<"G", "N", "D">>

\* name.startswith(prefix)
StartsWith(name, prefix) ==
  Len(name) >= Len(prefix) /\ SubSeq(name, 1, Len(prefix)) = prefix

----------------------------------------------------------------------------
(* _read_kicad_netlist_partcls *)

\* The first result of rs that raised
FirstRaise(rs) ==
  rs[CHOOSE n \in DOMAIN rs : ~rs[n].ok /\ \A m \in 1..(n - 1) : rs[m].ok]

\* All of rs, or what the first of them raised
Collect(rs) ==
  IF \E n \in DOMAIN rs : ~rs[n].ok THEN FirstRaise(rs)
  ELSE Return([n \in DOMAIN rs |-> rs[n].val])

\* One item of the dict comprehension of _read_fields: f["name"][1] : f[2]
ReadField(f) ==
  LET name == Item1(f, "name")
      value == GetIndex(f, 2)
  IN  IF ~name.ok THEN name
      ELSE IF ~value.ok THEN value
      ELSE Return([name |-> name.val.s, value |-> value.val.s])

\* _read_fields(part): the items in file order (a later name overwrites)
ReadFields(part) ==
  LET r == GetItem(part, "fields")
  IN  IF ~r.ok THEN r
      ELSE LET fs == Slice1(r.val)
           IN  Collect([n \in 1..Len(fs) |-> ReadField(fs[n])])

\* fields.pop(name, default)
Pop(fields, name, default) ==
  LET at == {n \in 1..Len(fields) : fields[n].name = name}
  IN  IF at = {} THEN default
      ELSE fields[CHOOSE n \in at : \A m \in at : m <= n].value

\* {key: pin[key][1] for key in ["num", "name", "type"]}
ReadPin(pin) ==
  LET num == Item1(pin, "num")
      name == Item1(pin, "name")
      type == Item1(pin, "type")
  IN  IF ~num.ok THEN num
      ELSE IF ~name.ok THEN name
      ELSE IF ~type.ok THEN type
      ELSE Return([num |-> num.val.s, name |-> name.val.s, type |-> type.val.s])

\* pins = [... for pin in libpart["pins"][1:]]
ReadPins(libpart) ==
  LET r == GetItem(libpart, "pins")
  IN  IF ~r.ok THEN r
      ELSE LET ps == Slice1(r.val)
           IN  Collect([n \in 1..Len(ps) |-> ReadPin(ps[n])])

\* A slip of the loop below: the pins are prepended instead of appended
PcbdlPinsReversed(pins) ==
  [n \in 1..Len(pins) |->
     PcbdlPin(Chars(pins[Len(pins) + 1 - n].num), Chars(pins[Len(pins) + 1 - n].name))]

\* pcbdl_pins: one Pin per libpart pin, in the libpart's order
PcbdlPins(pins) ==
  [n \in 1..Len(pins) |-> PcbdlPin(Chars(pins[n].num), Chars(pins[n].name))]

\* KicadPart.REFDES_PREFIX, inherited from the host library's Part
DefaultRefdesPrefix == "U"

\* The class made by type(part_name, parent_classes, class_dict)
PartClass(lib, part_name, description, fields, pins) ==
  LET refdes_prefix == Pop(fields, "Reference", DefaultRefdesPrefix)
      pcbdl_pins == PcbdlPins(pins)
  IN  [kicad_lib |-> lib,
       kicad_part |-> part_name,
       kicad_description |-> description,
       REFDES_PREFIX |-> refdes_prefix,
       value |-> Pop(fields, "Value", ""),
       package |-> Pop(fields, "Footprint", ""),
       PINS |-> pcbdl_pins,
       bases |-> <<"KicadPart">>
                 \o (IF Len(pcbdl_pins) = 2 /\ refdes_prefix = "R" THEN <<"R">> ELSE <<>>)
                 \o (IF Len(pcbdl_pins) = 2 /\ refdes_prefix = "C" THEN <<"C">> ELSE <<>>)]

ReadKicadNetlistPartcls(libpart) ==
  LET lib == Item1(libpart, "lib")
      part_name == Item1(libpart, "part")
      description == Item1(libpart, "description")
      fields == ReadFields(libpart)
      pins == ReadPins(libpart)
  IN  IF ~lib.ok THEN lib
      ELSE IF ~part_name.ok THEN part_name
      ELSE IF ~description.ok THEN description
      ELSE IF ~fields.ok THEN fields
      ELSE IF ~pins.ok THEN pins
      ELSE Return(PartClass(lib.val.s, part_name.val.s, description.val.s,
                            fields.val, pins.val))

----------------------------------------------------------------------------
(* The host library: Part and Net *)

Filename == "netlist.net"

\* part_class(refdes=..., value=...): the instance has the class's package
\* and its own pins, one per pin of the class, in the class's order
NewPart(cls, refdes, value) ==
  [cls |-> cls, refdes |-> refdes, value |-> value, package |-> cls.package,
   defined_at |-> "",
   pins |-> [n \in 1..Len(cls.PINS) |->
               [part |-> refdes, idx |-> n,
                numbers |-> cls.PINS[n].numbers, names |-> cls.PINS[n].names]]]

\* Net(name)
NewNet(name) == [name |-> name, defined_at |-> "", connections |-> <<>>]

\* n << pin
Connect(n, pin) == [n EXCEPT !.connections = Append(@, pin)]

----------------------------------------------------------------------------
(* read_kicad_netlist: the body of the loop over the components *)

\* A slip of the scan: the library alone is compared
FindPartClassByLib(classes, lib, part_name) ==
  LET m == {n \in 1..Len(classes) : classes[n].kicad_lib = lib}
  IN  IF m = {} THEN 0 ELSE CHOOSE n \in m : \A k \in m : n <= k

\* for part_class in part_classes: ... break: the index of the first class
\* of that library and part, 0 when the loop ends without a break
FindPartClass(classes, lib, part_name) ==
  LET m == {n \in 1..Len(classes) :
              classes[n].kicad_lib = lib /\ classes[n].kicad_part = part_name}
  IN  IF m = {} THEN 0 ELSE CHOOSE n \in m : \A k \in m : n <= k

\* print(f"{part_instance} does not have a footprint defined.")
NoFootprintMessage(inst) ==
  [text |-> "does not have a footprint defined.", part |-> inst.refdes]

\* A slip of the try block: the KeyError is not caught
SetPackageOrRaise(inst, component) ==
  LET footprint == Item1(component, "footprint")
  IN  IF footprint.ok
      THEN Return([inst |-> [inst EXCEPT !.package = footprint.val.s], out |-> <<>>])
      ELSE footprint

\* try: part_instance.package = component["footprint"][1]
\* except KeyError: print(...)
SetPackage(inst, component) ==
  LET footprint == Item1(component, "footprint")
  IN  IF footprint.ok
      THEN Return([inst |-> [inst EXCEPT !.package = footprint.val.s], out |-> <<>>])
      ELSE IF footprint.exc.type = "KeyError"
      THEN Return([inst |-> inst, out |-> <<NoFootprintMessage(inst)>>])
      ELSE footprint

\* One component: the instance and what was printed, or the exception
Populate(classes, component) ==
  LET libsource == GetItem(component, "libsource")
      lib == Item1(libsource.val, "lib")
      part_name == Item1(libsource.val, "part")
      found == FindPartClass(classes, lib.val.s, part_name.val.s)
      refdes == Item1(component, "ref")
      value == Item1(component, "value")
      packaged == SetPackage(NewPart(classes[found], refdes.val.s, value.val.s), component)
  IN  IF ~libsource.ok THEN libsource
      ELSE IF ~lib.ok THEN lib
      ELSE IF ~part_name.ok THEN part_name
      ELSE IF found = 0 THEN Raise(PartNotFoundException(Slice1(libsource.val)))
      ELSE IF ~refdes.ok THEN refdes
      ELSE IF ~value.ok THEN value
      ELSE IF ~packaged.ok THEN packaged
      ELSE Return([inst |-> [packaged.val.inst EXCEPT !.defined_at = Filename],
                   out |-> packaged.val.out])

\* parts[refdes] = part_instance
DictSet(d, key, v) ==
  [x \in DOMAIN d \cup {key} |-> IF x = key THEN v ELSE d[x]]

EmptyDict == [x \in {} |-> Nil]

----------------------------------------------------------------------------
(* read_kicad_netlist: the loop over the nets *)

NetPrefix == <<"N", "e", "t", "-">>

\* A slip of the filter: the name is not looked at
IsNoConnectAnyName(name, found_nodes) == Len(found_nodes) = 1

\* len(nodes) == 1 and name.startswith("Net-")
IsNoConnect(name, found_nodes) ==
  Len(found_nodes) = 1 /\ StartsWith(Chars(name), NetPrefix)

\* for pin in part.pins: if pin_number in pin.numbers: break
\* the index of the first such pin, 0 when the loop ends without a break
FindPin(part, pin_number) ==
  LET m == {n \in 1..Len(part.pins) : Chars(pin_number) \in Range(part.pins[n].numbers)}
  IN  IF m = {} THEN 0 ELSE CHOOSE n \in m : \A k \in m : n <= k

\* A slip of the guard: every node is connected
AlwaysConnect(pin, n) == TRUE

\* pin not in n.connections
NotConnected(pin, n) == pin \notin Range(n.connections)

\* One node of the net n: the net afterwards, or the exception
ConnectNodeTo(n, node, the_parts) ==
  LET pin_number == Item1(node, "pin")
      refdes == Item1(node, "ref")
      part == the_parts[refdes.val.s]
      found == FindPin(part, pin_number.val.s)
      pin == part.pins[found]
  IN  IF ~pin_number.ok THEN pin_number
      ELSE IF ~refdes.ok THEN refdes
      ELSE IF refdes.val.s \notin DOMAIN the_parts THEN Raise(KeyError(refdes.val.s))
      ELSE IF found = 0 THEN Raise(PinNotFound(pin_number.val.s, part.refdes))
      ELSE IF NotConnected(pin, n) THEN Return(Connect(n, pin))
      ELSE Return(n)

----------------------------------------------------------------------------
(* Netlists: the shape of the file the loader reads *)

\* (tag "value")
Tagged(tag, value) == Lst(<<Sym(tag), Str(value)>>)

\* (field (name "...") "...")
FieldE(name, value) == Lst(<<Sym("field"), Tagged("name", name), Str(value)>>)

\* (pin (num "...") (name "...") (type "..."))
PinE(num, name, type) ==
  Lst(<<Sym("pin"), Tagged("num", num), Tagged("name", name), Tagged("type", type)>>)

\* (libpart (lib ...) (part ...) (description ...)* (fields ...) (pins ...))
LibpartE(lib, part_name, descriptions, fields, pins) ==
  Lst(<<Sym("libpart"), Tagged("lib", lib), Tagged("part", part_name)>>
      \o [n \in 1..Len(descriptions) |-> Tagged("description", descriptions[n])]
      \o <<Lst(<<Sym("fields")>> \o fields), Lst(<<Sym("pins")>> \o pins)>>)

\* (comp (ref ...)* (value ...) (footprint ...)* (libsource (lib ...) (part ...)))
CompE(refs, value, footprints, lib, part_name) ==
  Lst(<<Sym("comp")>>
      \o [n \in 1..Len(refs) |-> Tagged("ref", refs[n])]
      \o <<Tagged("value", value)>>
      \o [n \in 1..Len(footprints) |-> Tagged("footprint", footprints[n])]
      \o <<Lst(<<Sym("libsource"), Tagged("lib", lib), Tagged("part", part_name)>>)>>)

\* (node (ref ...) (pin ...))
NodeE(refdes, pin_number) ==
  Lst(<<Sym("node"), Tagged("ref", refdes), Tagged("pin", pin_number)>>)

\* (net (code "1") (name ...)* (node ...)*)
NetE(names, the_nodes) ==
  Lst(<<Sym("net"), Tagged("code", "1")>>
      \o [n \in 1..Len(names) |-> Tagged("name", names[n])]
      \o the_nodes)

\* (export (version "D") <sections>)
ExportE(sections) == Lst(<<Sym("export"), Tagged("version", "D")>> \o sections)

LibpartsE(libparts) == Lst(<<Sym("libparts")>> \o libparts)
ComponentsE(components) == Lst(<<Sym("components")>> \o components)
NetsE(the_nets) == Lst(<<Sym("nets")>> \o the_nets)

NetlistE(libparts, components, the_nets) ==
  ExportE(<<ComponentsE(components), LibpartsE(libparts), NetsE(the_nets)>>)

----------------------------------------------------------------------------
(* The netlists loaded *)

\* A two-pin resistor with unnamed pins and a default footprint
LibpartR ==
  LibpartE("Device", "R", <<"Resistor">>,
           <<FieldE("Reference", "R"), FieldE("Value", "R"), FieldE("Footprint", "R_0603")>>,
           <<PinE("1", "~", "passive"), PinE("2", "~", "passive")>>)

\* A part whose first logical pin is the physical pins 1 and 3
LibpartU ==
  LibpartE("Device", "U", <<"Regulator">>,
           <<FieldE("Reference", "U"), FieldE("Footprint", "SOT-23")>>,
           <<PinE("1,3", "~", "power_in"), PinE("2", "A/B", "output")>>)

\* A libpart with two description children
LibpartTwoDescriptions ==
  LibpartE("Device", "U", <<"Regulator", "LDO">>, <<>>, <<PinE("1", "~", "passive")>>)

LibpartPool == {LibpartR, LibpartU, LibpartTwoDescriptions}

ComponentPool ==
  { CompE(<<"R1">>, "10k", <<"R_0402">>, "Device", "R"),
    CompE(<<"R1">>, "LDO", <<"SOT-89">>, "Device", "U"),
    CompE(<<"R2">>, "LDO", <<>>, "Device", "U"),
    CompE(<<"R3">>, "4k7", <<"R_0402", "R_0805">>, "Device", "R"),
    CompE(<<"R1", "R2">>, "10k", <<"R_0402">>, "Device", "R") }

NetNames == {"Net-1", "Net", "GND"}
NodePool == {NodeE("R1", "1"), NodeE("R1", "3"), NodeE("R2", "1")}

\* The net entries of at most w entries (the net and its nodes)
NetPool(w) ==
  IF w < 1 THEN {}
  ELSE {NetE(<<name>>, ns) : name \in NetNames, ns \in SeqsUpTo(NodePool, w - 1)}

\* The nets sections of at most w entries in all (nets and nodes)
RECURSIVE NetSections(_)
NetSections(w) ==
  {<<>>} \cup UNION { {<<n>> \o rest : rest \in NetSections(w - (Len(n.c) - 2))}
                      : n \in NetPool(w) }

\* Every libparts and components section, with an empty nets section
PartsFamily ==
  { NetlistE(ls, cs, <<>>)
      : ls \in SeqsUpTo(LibpartPool, MaxLibparts),
        cs \in SeqsUpTo(ComponentPool, MaxComponents) }

\* Two sets of parts, with every nets section: one part with the ganged pin
\* (and no footprint), and two resistors
NetsFamily ==
  { NetlistE(<<LibpartR, LibpartU>>, cs, ns)
      : cs \in { <<CompE(<<"R1">>, "LDO", <<>>, "Device", "U")>>,
                 <<CompE(<<"R1">>, "10k", <<"R_0402">>, "Device", "R"),
                   CompE(<<"R2">>, "10k", <<"R_0402">>, "Device", "R")>> },
        ns \in NetSections(MaxNetsSize) }

\* Files with a section twice or missing, and entries with a child twice
MalformedFamily ==
  LET c1 == CompE(<<"R1">>, "LDO", <<"SOT-89">>, "Device", "U")
      n1 == NetE(<<"GND">>, <<NodeE("R1", "1")>>)
  IN  { ExportE(<<ComponentsE(<<c1>>), LibpartsE(<<LibpartU>>), LibpartsE(<<>>), NetsE(<<n1>>)>>),
        ExportE(<<ComponentsE(<<c1>>), ComponentsE(<<c1>>), LibpartsE(<<LibpartU>>), NetsE(<<n1>>)>>),
        ExportE(<<ComponentsE(<<c1>>), LibpartsE(<<LibpartU>>), NetsE(<<n1>>), NetsE(<<n1>>)>>),
        ExportE(<<ComponentsE(<<c1>>), LibpartsE(<<LibpartU>>)>>),
        NetlistE(<<LibpartU>>, <<c1>>, <<n1, NetE(<<"GND", "Net-1">>, <<NodeE("R1", "1")>>)>>),
        NetlistE(<<LibpartU>>, <<c1>>,
                 <<NetE(<<"GND">>, <<NodeE("R1", "1"),
                                     Lst(<<Sym("node"), Tagged("ref", "R1"), Tagged("pin", "1"),
                                           Tagged("pin", "2")>>)>>)>>) }

Netlists == PartsFamily \cup NetsFamily \cup MalformedFamily

----------------------------------------------------------------------------
(* read_kicad_netlist *)

IxIdle == ix_pc = "idle" /\ ix_sexp = Lst(<<>>) /\ ix_key = "" /\ ix_ret = Raise(NoExc)
PnIdle == pn_pc = "idle" /\ pn_num = <<>> /\ pn_name = <<>> /\ pn_pin = Pin(<<>>, <<>>)

Init ==
  /\ netlist \in Netlists
  /\ pc = "libparts"
  /\ exc = NoExc
  /\ seq = <<>>
  /\ i = 0
  /\ part_classes = <<>>
  /\ parts = EmptyDict
  /\ printed = <<>>
  /\ nets = <<>>
  /\ nodes = <<>>
  /\ j = 0
  /\ ret = <<>>
  /\ IxIdle
  /\ PnIdle

Running == exc = NoExc /\ pc # "done"

\* An exception leaves read_kicad_netlist: nothing else changes
Abort(e) ==
  /\ exc' = e
  /\ UNCHANGED <<netlist, pc, seq, i, part_classes, parts, printed, nets, nodes, j, ret>>

\* The loop over section[1:] starts, or the section lookup raises
Open(section, next_pc) ==
  LET r == GetItem(netlist, section)
  IN  IF r.ok
      THEN /\ seq' = Slice1(r.val)
           /\ i' = 1
           /\ pc' = next_pc
           /\ UNCHANGED <<netlist, exc, part_classes, parts, printed, nets, nodes, j, ret>>
      ELSE Abort(r.exc)

\* netlist_contents["libparts"][1:]
OpenLibparts ==
  /\ Running /\ pc = "libparts" /\ i = 0
  /\ Open("libparts", "libparts")
  /\ UNCHANGED <<ix_vars, pn_vars>>

\* _read_kicad_netlist_partcls(part) for the next libpart
ReadPartcls ==
  /\ Running /\ pc = "libparts" /\ i >= 1 /\ i <= Len(seq)
  /\ LET r == ReadKicadNetlistPartcls(seq[i])
     IN  IF r.ok
         THEN /\ part_classes' = Append(part_classes, r.val)
              /\ i' = i + 1
              /\ UNCHANGED <<netlist, pc, exc, seq, parts, printed, nets, nodes, j, ret>>
         ELSE Abort(r.exc)
  /\ UNCHANGED <<ix_vars, pn_vars>>

\* netlist_contents["components"][1:]
OpenComponents ==
  /\ Running /\ pc = "libparts" /\ i > Len(seq)
  /\ Open("components", "components")
  /\ UNCHANGED <<ix_vars, pn_vars>>

\* The body of the loop over the components, for the next component
PopulatePart ==
  /\ Running /\ pc = "components" /\ i <= Len(seq)
  /\ LET r == Populate(part_classes, seq[i])
     IN  IF r.ok
         THEN /\ parts' = DictSet(parts, r.val.inst.refdes, r.val.inst)
              /\ printed' = printed \o r.val.out
              /\ i' = i + 1
              /\ UNCHANGED <<netlist, pc, exc, seq, part_classes, nets, nodes, j, ret>>
         ELSE Abort(r.exc)
  /\ UNCHANGED <<ix_vars, pn_vars>>

\* netlist_contents["nets"][1:]
OpenNets ==
  /\ Running /\ pc = "components" /\ i > Len(seq)
  /\ Open("nets", "nets")
  /\ UNCHANGED <<ix_vars, pn_vars>>

\* The next net entry: its name and nodes are read, and it is skipped or a
\* Net is made for it
BeginNet ==
  /\ Running /\ pc = "nets" /\ i <= Len(seq)
  /\ LET name == Item1(seq[i], "name")
         found_nodes == FindAllIter(seq[i], "node")
     IN  IF ~name.ok THEN Abort(name.exc)
         ELSE IF IsNoConnect(name.val.s, found_nodes)
         THEN /\ i' = i + 1
              /\ UNCHANGED <<netlist, pc, exc, seq, part_classes, parts, printed, nets, nodes, j, ret>>
         ELSE /\ nets' = Append(nets, [NewNet(name.val.s) EXCEPT !.defined_at = Filename])
              /\ nodes' = found_nodes
              /\ j' = 1
              /\ pc' = "nodes"
              /\ UNCHANGED <<netlist, exc, seq, i, part_classes, parts, printed, ret>>
  /\ UNCHANGED <<ix_vars, pn_vars>>

\* The body of the loop over the nodes, for the next node of the net
ConnectNode ==
  /\ Running /\ pc = "nodes" /\ j <= Len(nodes)
  /\ LET r == ConnectNodeTo(nets[Len(nets)], nodes[j], parts)
     IN  IF r.ok
         THEN /\ nets' = [nets EXCEPT ![Len(nets)] = r.val]
              /\ j' = j + 1
              /\ UNCHANGED <<netlist, pc, exc, seq, i, part_classes, parts, printed, nodes, ret>>
         ELSE Abort(r.exc)
  /\ UNCHANGED <<ix_vars, pn_vars>>

\* The loop over the nodes ends: on to the next net entry
EndNet ==
  /\ Running /\ pc = "nodes" /\ j > Len(nodes)
  /\ pc' = "nets"
  /\ i' = i + 1
  /\ UNCHANGED <<netlist, exc, seq, part_classes, parts, printed, nets, nodes, j, ret>>
  /\ UNCHANGED <<ix_vars, pn_vars>>

\* return parts, netlist_contents
ReturnParts ==
  /\ Running /\ pc = "nets" /\ i > Len(seq)
  /\ ret' = <<parts, netlist>>
  /\ pc' = "done"
  /\ UNCHANGED <<netlist, exc, seq, i, part_classes, parts, printed, nets, nodes, j>>
  /\ UNCHANGED <<ix_vars, pn_vars>>

Next ==
  \/ OpenLibparts
  \/ ReadPartcls
  \/ OpenComponents
  \/ PopulatePart
  \/ OpenNets
  \/ BeginNet
  \/ ConnectNode
  \/ EndNet
  \/ ReturnParts

Spec == Init /\ [][Next]_vars

----------------------------------------------------------------------------
(* One __getitem__ call on an indexed list *)

LoaderIdle ==
  /\ netlist = Lst(<<>>) /\ pc = "idle" /\ exc = NoExc /\ seq = <<>> /\ i = 0
  /\ part_classes = <<>> /\ parts = EmptyDict /\ printed = <<>> /\ nets = <<>>
  /\ nodes = <<>> /\ j = 0 /\ ret = <<>>

IndexChildPool ==
  {Sym("pin"), Str("pin"), Tagged("pin", "1"), Tagged("pin", "2"), Tagged("ref", "R1")}
IndexKeys == {"pin", "ref", "num"}

InitIndex ==
  /\ LoaderIdle /\ PnIdle
  /\ ix_pc = "call"
  /\ ix_sexp \in {Lst(<<Sym("node")>> \o cs) : cs \in SeqsUpTo(IndexChildPool, MaxChildren)}
  /\ ix_key \in IndexKeys
  /\ ix_ret = Raise(NoExc)

CallGetItem ==
  /\ ix_pc = "call"
  /\ ix_ret' = GetItem(ix_sexp, ix_key)
  /\ ix_pc' = "returned"
  /\ UNCHANGED <<ix_sexp, ix_key, loader_vars, pn_vars>>

SpecIndex == InitIndex /\ [][CallGetItem]_vars

----------------------------------------------------------------------------
(* One libpart pin converted *)

NumAlphabet == {"1", "3", ","}
NameAlphabet == {"A", "B", "~", "/", " "}

\* The raw number fields: pin numbers, one or several with commas between
NumFields ==
  {s \in SeqsUpTo(NumAlphabet, MaxStrLen) :
     /\ Len(s) >= 1 /\ s[1] # "," /\ s[Len(s)] # ","
     /\ \A n \in 1..(Len(s) - 1) : ~(s[n] = "," /\ s[n + 1] = ",")}

InitPin ==
  /\ LoaderIdle /\ IxIdle
  /\ pn_pc = "raw"
  /\ pn_num \in NumFields
  /\ pn_name \in SeqsUpTo(NameAlphabet, MaxStrLen)
  /\ pn_pin = Pin(<<>>, <<>>)

ConvertPin ==
  /\ pn_pc = "raw"
  /\ pn_pin' = PcbdlPin(pn_num, pn_name)
  /\ pn_pc' = "converted"
  /\ UNCHANGED <<pn_num, pn_name, loader_vars, ix_vars>>

SpecPin == InitPin /\ [][ConvertPin]_vars

----------------------------------------------------------------------------
(* The file as written, read without the loader's operators *)

\* Where the children of node that are lists tagged tag stand
TagsAt(node, tag) ==
  {n \in 1..Len(node.c) : node.c[n].k = "list" /\ node.c[n].c[1].s = tag}

Count(node, tag) == Cardinality(TagsAt(node, tag))

\* The child tagged tag, and its value, when there is exactly one
Child(node, tag) == node.c[CHOOSE n \in TagsAt(node, tag) : TRUE]
ValueOf(node, tag) == Child(node, tag).c[2].s

\* The entries of a top-level section that stands once in the file
Entries(section) ==
  IF Count(netlist, section) = 1
  THEN LET s == Child(netlist, section) IN [n \in 1..(Len(s.c) - 1) |-> s.c[n + 1]]
  ELSE <<>>

LibpartEntries == Entries("libparts")
ComponentEntries == Entries("components")

Terminated == exc # NoExc \/ pc = "done"

\* The component names one library and one part
PairDefined(c) ==
  /\ Count(c, "libsource") = 1
  /\ Count(Child(c, "libsource"), "lib") = 1
  /\ Count(Child(c, "libsource"), "part") = 1

\* The libparts entries with the component's library and part
MatchesOf(c) ==
  {n \in 1..Len(LibpartEntries) :
     /\ Count(LibpartEntries[n], "lib") = 1
     /\ Count(LibpartEntries[n], "part") = 1
     /\ ValueOf(LibpartEntries[n], "lib") = ValueOf(Child(c, "libsource"), "lib")
     /\ ValueOf(LibpartEntries[n], "part") = ValueOf(Child(c, "libsource"), "part")}

Unmatched(c) == PairDefined(c) /\ MatchesOf(c) = {}

\* What the load raises for the unmatched component c
NotFoundFor(c) ==
  LET ls == Child(c, "libsource")
  IN  PartNotFoundException([n \in 1..(Len(ls.c) - 1) |-> ls.c[n + 1]])

\* The loop over the components has got to entry n
ReachedComponent(n) ==
  (pc = "components" /\ i >= n) \/ pc \in {"nets", "nodes", "done"}

----------------------------------------------------------------------------
(* C1 *)

\* C1, as stated, for the loads that got to the loop over the components:
\* once the load has ended, every component of the components section whose
\* (library, part) pair is the pair of no libparts entry has made it fail
\* with PartNotFoundException about that pair, with nothing returned.
C1_AnyUnmatchedRaises ==
  (Terminated /\ ReachedComponent(1)) =>
    \A n \in 1..Len(ComponentEntries) :
      Unmatched(ComponentEntries[n]) =>
        exc = NotFoundFor(ComponentEntries[n]) /\ Len(ret) = 0

\* C1, amended: a component with an unmatched pair that the loop over the
\* components reaches (the class list was built and every component before
\* it was instantiated) is never passed: the load stops at it with
\* PartNotFoundException about its libsource, and returns nothing, at
\* whatever position it stands.
C1_ReachedUnmatchedRaises ==
  \A n \in 1..Len(ComponentEntries) :
    (Unmatched(ComponentEntries[n]) /\ ReachedComponent(n)) =>
      /\ pc = "components" /\ i = n
      /\ exc = NoExc \/ (exc = NotFoundFor(ComponentEntries[n]) /\ Len(ret) = 0)

\* An unmatched component in second place has ended the load, after the
\* first component was instantiated
C1_Witness ==
  /\ pc = "components" /\ i = 2 /\ Cardinality(DOMAIN parts) = 1
  /\ Len(ComponentEntries) = 2
  /\ Unmatched(ComponentEntries[2])
  /\ exc = NotFoundFor(ComponentEntries[2])

----------------------------------------------------------------------------
(* C4 *)

\* The pin definitions of a libparts entry, in the order it declares them
DeclaredPins(libpart) ==
  LET ps == Child(libpart, "pins")
  IN  [n \in 1..(Len(ps.c) - 1) |->
         PcbdlPin(Chars(ValueOf(ps.c[n + 1], "num")), Chars(ValueOf(ps.c[n + 1], "name")))]

\* The instance is of the libparts entry's class and has its pins
BuiltFrom(inst, libpart) ==
  /\ inst.cls.kicad_lib = ValueOf(libpart, "lib")
  /\ inst.cls.kicad_part = ValueOf(libpart, "part")
  /\ [n \in 1..Len(inst.pins) |-> Pin(inst.pins[n].numbers, inst.pins[n].names)]
       = DeclaredPins(libpart)

MatchesExactlyOne(c) == PairDefined(c) /\ Cardinality(MatchesOf(c)) = 1

\* C4, as stated: after a successful load every component whose pair matches
\* exactly one libparts entry has its refdes mapped to an instance built from
\* that entry, with the entry's pins in the declared order.
C4_EveryComponentMapped ==
  pc = "done" =>
    \A n \in 1..Len(ComponentEntries) :
      LET c == ComponentEntries[n]
      IN  MatchesExactlyOne(c) =>
            /\ ValueOf(c, "ref") \in DOMAIN ret[1]
            /\ BuiltFrom(ret[1][ValueOf(c, "ref")],
                         LibpartEntries[CHOOSE m \in MatchesOf(c) : TRUE])

\* C4, amended: the same, for every such component whose refdes no later
\* component of the section repeats (a later component with the same refdes
\* replaces the earlier one in the mapping).
C4_LastComponentMapped ==
  pc = "done" =>
    \A n \in 1..Len(ComponentEntries) :
      LET c == ComponentEntries[n]
      IN  (/\ MatchesExactlyOne(c)
           /\ \A m \in (n + 1)..Len(ComponentEntries) :
                ValueOf(ComponentEntries[m], "ref") # ValueOf(c, "ref")) =>
            /\ ValueOf(c, "ref") \in DOMAIN ret[1]
            /\ BuiltFrom(ret[1][ValueOf(c, "ref")],
                         LibpartEntries[CHOOSE m \in MatchesOf(c) : TRUE])

\* A load has returned two parts of two libparts, one with the ganged pin
C4_Witness ==
  /\ pc = "done" /\ Len(LibpartEntries) = 2 /\ Len(ComponentEntries) = 2
  /\ \A n \in 1..2 : MatchesExactlyOne(ComponentEntries[n])
  /\ DOMAIN ret[1] = {"R1", "R2"}
  /\ ret[1]["R2"].pins[1].numbers = << <<"1">>, <<"3">> >>
  /\ ret[1]["R1"].pins[2].names = << <<"P", "2">> >>

----------------------------------------------------------------------------
(* C6 *)

\* The Footprint field of a libparts entry: its class's package
DefaultPackage(libpart) ==
  LET fs == Child(libpart, "fields")
      at == {n \in 2..Len(fs.c) : ValueOf(fs.c[n], "name") = "Footprint"}
  IN  IF at = {} THEN "" ELSE fs.c[CHOOSE n \in at : \A m \in at : m <= n].c[3].s

\* The component lacks nothing but, maybe, its footprint
InstantiableButFootprint(c) ==
  /\ PairDefined(c) /\ MatchesOf(c) # {}
  /\ Count(c, "ref") = 1 /\ Count(c, "value") = 1

FirstMatch(c) == LibpartEntries[CHOOSE m \in MatchesOf(c) : \A k \in MatchesOf(c) : m <= k]

\* C6: the step of the loop for a component without a footprint child does
\* not end the load: it prints the warning, maps the refdes to an instance
\* whose package is the class's (the libpart's Footprint field) and goes on
\* to the next entry; for a component with one footprint child it prints
\* nothing and the instance's package is that footprint.
C6_MissingFootprintWarns ==
  [][ (Running /\ pc = "components" /\ i <= Len(seq) /\ InstantiableButFootprint(seq[i])) =>
        LET c == seq[i]
            refdes == ValueOf(c, "ref")
        IN  /\ Count(c, "footprint") = 0 =>
                 /\ exc' = NoExc /\ pc' = "components" /\ i' = i + 1
                 /\ refdes \in DOMAIN parts'
                 /\ parts'[refdes].package = DefaultPackage(FirstMatch(c))
                 /\ printed' = Append(printed, [text |-> "does not have a footprint defined.",
                                                part |-> refdes])
            /\ Count(c, "footprint") = 1 =>
                 /\ exc' = NoExc /\ pc' = "components" /\ i' = i + 1
                 /\ refdes \in DOMAIN parts'
                 /\ parts'[refdes].package = ValueOf(c, "footprint")
                 /\ printed' = printed
    ]_vars

\* A load with a component without footprint has gone on through the nets
\* and returned the instance with the class's package
C6_Witness ==
  /\ pc = "done" /\ Len(ComponentEntries) = 1 /\ Len(printed) = 1
  /\ Count(ComponentEntries[1], "footprint") = 0
  /\ DOMAIN ret[1] = {"R1"} /\ ret[1]["R1"].package = "SOT-23"
  /\ Len(nets) = 1 /\ Len(nets[1].connections) = 1

----------------------------------------------------------------------------
(* The nets section against the nets registered *)

NetsStage == pc \in {"nets", "nodes", "done"}

\* The names the netlist tool gives the nets it names itself
AutoNames == {"Net-1"}

\* How many net entries the loop has read the name and the nodes of
Begun == IF pc = "nodes" THEN i ELSE i - 1

\* The entry is an auto-named net of one node
Filtered(e) ==
  Count(e, "name") = 1 /\ ValueOf(e, "name") \in AutoNames /\ Count(e, "node") = 1

\* The entries read so far that are no auto-named net of one node
KeptEntries == SelectSeq([n \in 1..Begun |-> seq[n]], LAMBDA e : ~Filtered(e))

\* The node children of a net entry, in order
NodesOf(e) == SelectSeq(e.c, LAMBDA x : x.k = "list" /\ x.c[1].s = "node")

\* How many nodes of the g-th net registered the loop over its nodes has
\* been through
NodesDone(g) ==
  IF g = Len(nets) /\ pc = "nodes" THEN j - 1 ELSE Len(NodesOf(KeptEntries[g]))

----------------------------------------------------------------------------
(* C2 *)

\* Where the logical pin that the node names stands among the connections
ConnectedAt(conns, node) ==
  {a \in 1..Len(conns) :
     /\ conns[a].part = ValueOf(node, "ref")
     /\ Chars(ValueOf(node, "pin")) \in Range(conns[a].numbers)}

\* C2: at every point of the loop over the nets and after the load, no net
\* registered holds a pin twice, and the logical pin of every node the loop
\* has been through stands in the net's connections exactly once, whatever
\* physical pin numbers the nodes give and however often a node is repeated.
C2_NoPinTwice ==
  NetsStage =>
    \A g \in 1..Len(nets) :
      LET conns == nets[g].connections
      IN  /\ \A a, b \in 1..Len(conns) : a # b => conns[a] # conns[b]
          /\ \A d \in 1..NodesDone(g) :
               Cardinality(ConnectedAt(conns, NodesOf(KeptEntries[g])[d])) = 1

\* A net of two nodes that give two physical numbers of one logical pin has
\* been connected, and holds one pin
C2_Witness ==
  /\ pc = "done" /\ Len(nets) >= 1
  /\ Len(NodesOf(KeptEntries[1])) = 2
  /\ ValueOf(NodesOf(KeptEntries[1])[1], "ref") = ValueOf(NodesOf(KeptEntries[1])[2], "ref")
  /\ ValueOf(NodesOf(KeptEntries[1])[1], "pin") # ValueOf(NodesOf(KeptEntries[1])[2], "pin")
  /\ Len(nets[1].connections) = 1

----------------------------------------------------------------------------
(* C3 *)

\* C3: of the net entries read so far, exactly those that are no auto-named
\* net of one node have a Net of their name registered, in the order of the
\* file: an auto-named entry of one node has none, an auto-named entry of two
\* or more nodes has one, an entry with another name has one whatever its
\* node count; and an exception never comes from an auto-named entry of one
\* node, whose node is not looked at.
C3_NoConnectFiltered ==
  NetsStage =>
    /\ Len(nets) = Len(KeptEntries)
    /\ \A g \in 1..Len(nets) : nets[g].name = ValueOf(KeptEntries[g], "name")
    /\ (exc # NoExc /\ i <= Len(seq)) => ~Filtered(seq[i])

\* A load has returned after an auto-named entry whose one node names a part
\* that does not exist, and with a net registered
C3_Witness ==
  /\ pc = "done" /\ Len(nets) >= 1
  /\ \E n \in 1..Len(seq) :
       /\ Filtered(seq[n])
       /\ ValueOf(NodesOf(seq[n])[1], "ref") \notin DOMAIN ret[1]

----------------------------------------------------------------------------
(* C8 *)

\* C8, as stated: after a successful load no net registered has exactly one
\* connection and an auto-generated name.
C8_NoSingleAutoNet ==
  pc = "done" =>
    \A g \in 1..Len(nets) :
      ~(Len(nets[g].connections) = 1 /\ nets[g].name \in AutoNames)

----------------------------------------------------------------------------
(* C9 *)

\* No child tagged with one of tags stands twice in the entry
NoTagTwice(e, tags) == \A tag \in tags : Count(e, tag) <= 1

\* C9, as stated: a lookup that matches more than one child ends the load, so
\* the load never gets past a section, a libpart, a component, a net or a
\* node in which a tag the loader looks up uniquely stands twice; in
\* particular no component with two footprint children is instantiated.
C9_AmbiguousLookupAborts ==
  /\ (pc # "libparts" \/ i >= 1) => Count(netlist, "libparts") <= 1
  /\ pc \in {"components", "nets", "nodes", "done"} => Count(netlist, "components") <= 1
  /\ NetsStage => Count(netlist, "nets") <= 1
  /\ (pc = "libparts" /\ i >= 1) =>
       \A n \in 1..(i - 1) :
         NoTagTwice(seq[n], {"lib", "part", "description", "fields", "pins"})
  /\ pc = "components" =>
       \A n \in 1..(i - 1) :
         /\ NoTagTwice(seq[n], {"libsource", "ref", "value", "footprint"})
         /\ NoTagTwice(Child(seq[n], "libsource"), {"lib", "part"})
  /\ NetsStage =>
       /\ \A n \in 1..Begun : NoTagTwice(seq[n], {"name"})
       /\ \A g \in 1..Len(nets) : \A d \in 1..NodesDone(g) :
            NoTagTwice(NodesOf(KeptEntries[g])[d], {"ref", "pin"})

----------------------------------------------------------------------------
(* C10 *)

\* C10, as stated: when a load fails, at whatever stage, nothing is returned
\* and no net that the load constructed remains registered.
C10_FailureLeavesNothing ==
  exc # NoExc => Len(ret) = 0 /\ Len(nets) = 0

----------------------------------------------------------------------------
(* C5 *)

\* C5: __getitem__(name) ends in one of three ways, decided by the number of
\* children that are lists whose first element is the symbol name: none,
\* KeyError(name); several, the "More than one" KeyError, which differs from
\* KeyError(name); one, that child. Children that are atoms are not counted.
C5_UniqueByTag ==
  ix_pc = "returned" =>
    LET at == TagsAt(ix_sexp, ix_key)
    IN  /\ at = {} => ~ix_ret.ok /\ ix_ret.exc = KeyError(ix_key)
        /\ Cardinality(at) > 1 =>
             /\ ~ix_ret.ok
             /\ ix_ret.exc = MoreThanOne(ix_key)
             /\ ix_ret.exc # KeyError(ix_key)
        /\ Cardinality(at) = 1 =>
             ix_ret.ok /\ ix_ret.val = ix_sexp.c[CHOOSE n \in at : TRUE]

\* A lookup among an atom of the key's text and two lists tagged with the
\* key has raised the "More than one" KeyError
C5_Witness ==
  /\ ix_pc = "returned" /\ ix_key = "pin"
  /\ Cardinality(TagsAt(ix_sexp, "pin")) = 2
  /\ \E n \in 2..Len(ix_sexp.c) : ix_sexp.c[n] = Str("pin")
  /\ ix_ret.exc = MoreThanOne("pin")

----------------------------------------------------------------------------
(* C7 *)

\* C7, as stated: a pin whose raw name is "~" gets the one name "P" followed
\* by its raw number, whatever the raw number is; any other raw name is split
\* at the runs of delimiters.
C7_PlaceholderNotTokenized ==
  pn_pc = "converted" =>
    IF pn_name = <<"~">> THEN pn_pin.names = << <<"P">> \o pn_num >>
    ELSE pn_pin.names = Findall(pn_name)

====
